---- MODULE Spec2Model ----
(***************************************************************************)
(* SC2DataManager (src/src/BeforeSC2/HtmlTagSrcHook.ts): the origin and    *)
(* after-patch snapshot caches, the patch pipeline patchModToGame with its *)
(* suspension points, startInit, rePlacePassage and makeScriptNode.        *)
(*                                                                         *)
(* An optional value (a field that may be undefined) is a sequence of      *)
(* length 0 or 1.  A record id that is not a safe integer is <<>>.         *)
(***************************************************************************)
EXTENDS Integers, Sequences, FiniteSets, TLC

\* ------------------------------------------------------------ bounds
MaxCalls == 2
MaxReplace == 1
MaxSortLen == 4
MaxManagerCalls == 1
MaxNodes == 2
MaxMergeRecords == 4
MaxMergeInputs == 3
MaxHooks == 3

Calls == 1..MaxCalls

\* ------------------------------------------------------------ records
Undefined == <<>>

Item(id, name, content) == [id |-> id, name |-> name, content |-> content]

EmptySC2DataInfo ==
  [scriptFileItems |-> <<>>, styleFileItems |-> <<>>, passageDataItems |-> <<>>]

Kinds == {"scriptFileItems", "styleFileItems", "passageDataItems"}

\* lodash isSafeInteger on an id
isSafeInteger(id) == Len(id) = 1

RECURSIVE Flatten(_)
Flatten(ss) == IF ss = <<>> THEN <<>> ELSE Head(ss) \o Flatten(Tail(ss))

\* ------------------------------------------------------------ render tree
\* The children of tw-storydata, in document order.  A style or script node
\* holds the entries of its text (one per identifying comment); a passage
\* node holds one entry.
Node(tag, items) == [tag |-> tag, items |-> items]

NodesByTag(t, tag) == SelectSeq(t, LAMBDA n : n.tag = tag)

styleNode(t) == NodesByTag(t, "style")
scriptNode(t) == NodesByTag(t, "script")
passageDataNodeList(t) == NodesByTag(t, "tw-passagedata")

ItemsOfNodes(nodes) == Flatten([i \in 1..Len(nodes) |-> nodes[i].items])

\* new SC2DataInfoCache(log, 'orgin', scriptNode, styleNode, passageDataNodeList)
createNewSC2DataInfoFromNow(t) ==
  [scriptFileItems |-> ItemsOfNodes(scriptNode(t)),
   styleFileItems |-> ItemsOfNodes(styleNode(t)),
   passageDataItems |-> ItemsOfNodes(passageDataNodeList(t))]

\* checkSC2Data.  The document holds `roots` top-level tw-storydata elements;
\* t is the children of the first.  document.getElementsByTagName finds the
\* nested tw-storydata elements as well.
checkSC2Data(roots, t) ==
  LET rNodes == roots + Len(NodesByTag(t, "tw-storydata"))
      stNodes == NodesByTag(t, "style")
      scNodes == NodesByTag(t, "script")
      passageDataNodes == NodesByTag(t, "tw-storydata")
  IN IF rNodes # 1 THEN FALSE
     ELSE IF Len(stNodes) # 1 THEN FALSE
     ELSE IF Len(scNodes) # 1 THEN FALSE
     ELSE IF Len(passageDataNodes) < 1 THEN FALSE
     ELSE TRUE

\* ------------------------------------------------------------ caches
\* initSC2DataInfoCache: capture only when the field is still undefined
initSC2DataInfoCache(origin, t) ==
  IF origin = Undefined THEN <<createNewSC2DataInfoFromNow(t)>> ELSE origin

\* getSC2DataInfoAfterPatch: the field after the call (also the value returned)
getSC2DataInfoAfterPatch(cache, t) ==
  IF cache = Undefined THEN <<createNewSC2DataInfoFromNow(t)>> ELSE cache

\* a flush that forgets to clear the field first
flushAfterPatchCache_keep(cache, t) == getSC2DataInfoAfterPatch(cache, t)

flushAfterPatchCache(cache, t) == getSC2DataInfoAfterPatch(Undefined, t)

\* SC2DataInfoCache.cloneSC2DataInfo: a deep copy; values carry no identity
cloneSC2DataInfo(sc) == sc

\* ------------------------------------------------------------ merge engine
IndexOfName(items, name) ==
  IF \E i \in 1..Len(items) : items[i].name = name
  THEN CHOOSE i \in 1..Len(items) :
         /\ items[i].name = name
         /\ \A j \in 1..(i - 1) : items[j].name # name
  ELSE 0

PutItem(items, r) ==
  LET i == IndexOfName(items, r.name)
  IN IF i = 0 THEN Append(items, r)
     ELSE [j \in 1..Len(items) |-> IF j = i THEN r ELSE items[j]]

RECURSIVE PutAll(_, _)
PutAll(items, src) ==
  IF src = <<>> THEN items ELSE PutAll(PutItem(items, Head(src)), Tail(src))

RECURSIVE FoldPutAll(_, _)
FoldPutAll(acc, srcs) ==
  IF srcs = <<>> THEN acc ELSE FoldPutAll(PutAll(acc, Head(srcs)), Tail(srcs))

\* a merge that keeps the content a name had first
normalMerge_keepFirst(caches) ==
  [k \in Kinds |->
     LET all == Flatten([i \in 1..Len(caches) |-> caches[i][k]])
         merged == FoldPutAll(<<>>, [i \in 1..Len(caches) |-> caches[i][k]])
     IN [p \in 1..Len(merged) |-> all[IndexOfName(all, merged[p].name)]]]

\* normalMergeSC2DataInfoCache(EmptyMod, ...caches): fold left to right
normalMergeSC2DataInfoCache(caches) ==
  [k \in Kinds |-> FoldPutAll(<<>>, [i \in 1..Len(caches) |-> caches[i][k]])]

NamesOf(items) == {items[i].name : i \in 1..Len(items)}

\* the names met while folding that an earlier snapshot already carried
RECURSIVE FoldConflicts(_, _, _)
FoldConflicts(seen, conflict, srcs) ==
  IF srcs = <<>> THEN conflict
  ELSE FoldConflicts(seen \cup NamesOf(Head(srcs)),
                     conflict \cup (seen \cap NamesOf(Head(srcs))),
                     Tail(srcs))

\* a conflict set that counts every second record of a name, also inside one
\* snapshot
normalMergeConflict_perRecord(caches) ==
  [k \in Kinds |->
     LET all == Flatten([i \in 1..Len(caches) |-> caches[i][k]])
     IN {all[j].name : j \in {j \in 1..Len(all) :
                                \E i \in 1..(j - 1) : all[i].name = all[j].name}}]

\* the conflict set normalMerge reports, per kind
normalMergeConflict(caches) ==
  [k \in Kinds |-> FoldConflicts({}, {}, [i \in 1..Len(caches) |-> caches[i][k]])]

\* a merge that appends, as concatMerge does
replaceMerge_concat(base, overlay) == [k \in Kinds |-> base[k] \o overlay[k]]

\* replaceMergeSC2DataInfoCache(base, overlay): the result is read back from
\* a table keyed by name, filled with the base records and then with the
\* overlay records; a name the base holds twice is kept once, with the later
\* record at the place of the earlier
replaceMergeSC2DataInfoCache(base, overlay) ==
  [k \in Kinds |-> PutAll(PutAll(<<>>, base[k]), overlay[k])]

\* Records are objects: an edit in place of a record shows in every snapshot
\* that holds the same object.  The owners are "cache" (the after-patch
\* cache) and the mods, by name.
\* The bodies of cloneSC2DataInfo and of the merges are in other modules; what
\* they share with their inputs is the design's rule: a clone is a deep copy,
\* and every merge copies the records it takes (design, 4.1 and 4.2).
cloneOwners(owner) == {}

mergeOwners(owners) == {}

\* whose records the base handed to replaceMerge shares: it is a clone
BaseOwners(owner) == cloneOwners(owner)

\* whose records the patched snapshot shares
PatchedOwners(mods) == BaseOwners("cache") \cup mergeOwners(mods)

\* a patched snapshot made of the mods alone
PatchedSnapshot_modsOnly(base, caches) == normalMergeSC2DataInfoCache(caches)

\* patchModToGame: the mods merged onto an empty snapshot, the result merged
\* onto a clone of the baseline
PatchedSnapshot(base, caches) ==
  replaceMergeSC2DataInfoCache(cloneSC2DataInfo(base),
                               normalMergeSC2DataInfoCache(caches))

\* ------------------------------------------------------------ transforms
\* A replace patcher rewrites the content of the entry called `name` of one
\* kind; `fail` says whether it throws, before or after the rewrite.
Patcher(kind, name, to, fail) ==
  [kind |-> kind, name |-> name, to |-> to, fail |-> fail]

SetContent(items, name, to) ==
  [i \in 1..Len(items) |->
     IF items[i].name = name THEN [items[i] EXCEPT !.content = to] ELSE items[i]]

\* rp.applyReplacePatcher(modSC2DataInfoCache) inside the try block
ApplyPatcher(sc, rp) ==
  IF rp.fail = "before" THEN sc
  ELSE [sc EXCEPT ![rp.kind] = SetContent(sc[rp.kind], rp.name, rp.to)]

\* what the edit does to the after-patch cache and to the mods' snapshots,
\* given the owners the patched snapshot shares records with
CacheAfterPatcher(cache, owners, rp) ==
  IF "cache" \in owners /\ cache # Undefined
  THEN <<ApplyPatcher(cache[1], rp)>> ELSE cache

ModsAfterPatcher(mods, owners, rp) ==
  [n \in DOMAIN mods |->
     IF n \in owners
     THEN [cache |-> ApplyPatcher(mods[n].cache, rp),
           replacePatcher |-> mods[n].replacePatcher]
     ELSE mods[n]]

\* ------------------------------------------------------------ serialization
\* a comparator that forgets the one-sided cases
CompareScript_bothOnly(a, b) ==
  IF isSafeInteger(a.id) /\ isSafeInteger(b.id)
  THEN IF a.id[1] < b.id[1] THEN -1 ELSE IF a.id[1] = b.id[1] THEN 0 ELSE 1
  ELSE 0

\* the comparator handed to Array.prototype.sort in makeScriptNode
CompareScript(a, b) ==
  IF isSafeInteger(a.id) /\ isSafeInteger(b.id)
  THEN IF a.id[1] < b.id[1] THEN -1 ELSE IF a.id[1] = b.id[1] THEN 0 ELSE 1
  ELSE IF isSafeInteger(a.id) THEN -1
  ELSE IF isSafeInteger(b.id) THEN 1
  ELSE 0

Front(s) == SubSeq(s, 1, Len(s) - 1)
Last(s) == s[Len(s)]

\* Array.prototype.sort is stable: an entry moves left only past entries
\* the comparator puts strictly after it
RECURSIVE InsertStable(_, _)
InsertStable(sorted, x) ==
  IF sorted = <<>> THEN <<x>>
  ELSE IF CompareScript(Last(sorted), x) > 0
       THEN Append(InsertStable(Front(sorted), x), Last(sorted))
       ELSE Append(sorted, x)

RECURSIVE SortScripts(_)
SortScripts(items) ==
  IF items = <<>> THEN <<>>
  ELSE InsertStable(SortScripts(Front(items)), Last(items))

makeScriptNode(sc) == Node("script", SortScripts(sc.scriptFileItems))

makeStyleNode(sc) == Node("style", sc.styleFileItems)

\* pid is written only for a truthy id above 0
makePassageNode(T) ==
  Node("tw-passagedata",
       <<Item(IF isSafeInteger(T.id) /\ T.id[1] > 0 THEN T.id ELSE Undefined,
              T.name, T.content)>>)

\* a removal that takes only the first node of each tag
RemoveOld_firstOnly(t) ==
  LET first == {i \in 1..Len(t) :
                  /\ t[i].tag \in {"style", "script", "tw-passagedata"}
                  /\ \A j \in 1..(i - 1) : t[j].tag # t[i].tag}
      F[i \in 0..Len(t)] ==
        IF i = 0 THEN <<>>
        ELSE IF i \in first THEN F[i - 1] ELSE Append(F[i - 1], t[i])
  IN F[Len(t)]

\* a removal that leaves the passage nodes
RemoveOld_keepPassages(t) ==
  SelectSeq(t, LAMBDA n : n.tag \notin {"style", "script"})

\* the three "remove old" loops
RemoveOld(t) ==
  SelectSeq(t, LAMBDA n : n.tag \notin {"style", "script", "tw-passagedata"})

\* a swap that stops after removing
SwapTree_removeOnly(t, sc) == RemoveOld(t)

\* remove old, add new: script, style, then one node per passage
SwapTree(t, sc) ==
  RemoveOld(t) \o <<makeScriptNode(sc), makeStyleNode(sc)>>
    \o [i \in 1..Len(sc.passageDataItems) |-> makePassageNode(sc.passageDataItems[i])]

\* ------------------------------------------------------------ mods
\* ModLoader.modOrder is a sequence of mod names; ModLoader.modCache maps a
\* name to its ModInfo {cache, replacePatcher}.  A name of modOrder may be
\* missing from modCache.
ModInfo(cache, replacePatcher) ==
  [cache |-> cache, replacePatcher |-> replacePatcher]

Snap(scripts, styles, passages) ==
  [scriptFileItems |-> scripts, styleFileItems |-> styles,
   passageDataItems |-> passages]

ModSetups ==
  { [modOrder |-> <<>>,
     modCache |-> [n \in {} |-> ModInfo(EmptySC2DataInfo, <<>>)]],
    [modOrder |-> <<"m1">>,
     modCache |-> [n \in {"m1"} |->
        ModInfo(Snap(<<Item(Undefined, "b", 1)>>, <<>>, <<Item(<<2>>, "b", 1)>>),
                <<Patcher("passageDataItems", "a", 7, "no")>>)]],
    [modOrder |-> <<"m1", "m2">>,
     modCache |-> [n \in {"m1", "m2"} |->
        IF n = "m1"
        THEN ModInfo(Snap(<<>>, <<Item(<<0>>, "a", 1)>>, <<Item(<<1>>, "a", 1)>>),
                     <<Patcher("passageDataItems", "a", 7, "before"),
                       Patcher("scriptFileItems", "a", 7, "no")>>)
        ELSE ModInfo(Snap(<<Item(<<0>>, "c", 2)>>, <<>>, <<Item(<<1>>, "a", 2)>>),
                     <<Patcher("passageDataItems", "a", 8, "no")>>)]],
    [modOrder |-> <<"m2", "m3", "m1">>,
     modCache |-> [n \in {"m1", "m2"} |->
        IF n = "m1"
        THEN ModInfo(Snap(<<Item(<<-1>>, "c", 1)>>, <<>>, <<>>),
                     <<Patcher("styleFileItems", "a", 7, "after")>>)
        ELSE ModInfo(Snap(<<>>, <<>>, <<Item(Undefined, "c", 2)>>), <<>>)]],
    [modOrder |-> <<"m1", "m2">>,
     modCache |-> [n \in {"m1", "m2"} |->
        IF n = "m1"
        THEN ModInfo(Snap(<<Item(<<5>>, "a", 1), Item(Undefined, "c", 1)>>,
                          <<Item(<<1>>, "a", 1)>>,
                          <<Item(<<0>>, "a", 1), Item(<<2>>, "c", 1)>>), <<>>)
        ELSE ModInfo(Snap(<<Item(<<1>>, "c", 2)>>, <<>>, <<>>), <<>>)]] }

InitTrees ==
  { <<Node("style", <<Item(<<1>>, "a", 0)>>),
      Node("script", <<Item(<<2>>, "b", 0), Item(<<1>>, "a", 0)>>),
      Node("tw-passagedata", <<Item(<<1>>, "a", 0)>>)>>,
    <<Node("script", <<Item(Undefined, "a", 0)>>),
      Node("tw-passagedata", <<Item(<<1>>, "a", 0)>>),
      Node("tw-passagedata", <<Item(Undefined, "b", 0)>>),
      Node("script", <<Item(<<3>>, "b", 0)>>)>>,
    <<Node("style", <<Item(<<1>>, "a", 0)>>),
      Node("style", <<Item(<<2>>, "b", 0)>>)>> }

\* ------------------------------------------------------------ state
VARIABLES
  tree,                         \* children of tw-storydata
  tree0,                        \* the tree as it was at construction
  originSC2DataInfoCache,       \* optional snapshot
  cSC2DataInfoAfterPatchCache,  \* optional snapshot
  startInitOk,
  conflictResult,               \* optional
  modOrder, modCache,
  pc,                           \* per patchModToGame call: the await it is at
  modSC2DataInfoCache,          \* per call: the local patched snapshot
  rpPos,                        \* per call: <<index in modOrder, index in replacePatcher>>
  applied,                      \* per call: positions whose patcher was run
  phaseLog,                     \* per call: phases entered so far
  overlapped,                   \* per call: started while another call was in flight
  rejected,                     \* per call: a lifecycle callback it awaited rejected
  aliased,                      \* per call: owners whose records the patched snapshot shares
  lastTouch,                    \* who last rewrote the tree or dropped the caches
  initPc,                       \* the await startInit is at
  initCall,                     \* the patch call startInit made (0: none)
  initLog,                      \* the stages of startInit started so far
  nReplace,                     \* rePlacePassage calls so far
  sortIn, sortOut,              \* makeScriptNode alone: the caller's list, the node returned
  sortArg,                      \* optional: the caller's list as it was at the call
  docRoots,                     \* tw-storydata elements at the top of the document
  checkResult,                  \* optional: what checkSC2Data returned
  mergeIn, mergeOut,            \* a merge alone: its input and output
  hookReturnModeTable,          \* HtmlTagSrcHook: return-mode hooks, in Map order
  hookTable,                    \* HtmlTagSrcHook: element hooks, in Map order
  el,                           \* the element handed to doHook
  hookIn,                       \* the hook call in progress: operation, src, callback
  hookPc,                       \* the await the hook call is at
  hookPos,                      \* the index of the hook awaited (0: none)
  hookCalled,                   \* the hooks the call has called, in order
  hookResult,                   \* optional: what the call returned
  callbackLog,                  \* the arguments the callback was invoked with
  hookTouched                   \* a hook was registered while the call was in flight

vars == <<tree, tree0, originSC2DataInfoCache, cSC2DataInfoAfterPatchCache,
          startInitOk, conflictResult, modOrder, modCache, pc,
          modSC2DataInfoCache, rpPos, applied, phaseLog, overlapped, rejected,
          aliased, lastTouch, initPc, initCall, initLog, nReplace, sortIn, sortOut, sortArg,
          docRoots, checkResult, mergeIn, mergeOut,
          hookReturnModeTable, hookTable, el, hookIn, hookPc, hookPos,
          hookCalled, hookResult, callbackLog, hookTouched>>

managerVars == <<tree, originSC2DataInfoCache, cSC2DataInfoAfterPatchCache>>
callVars == <<pc, modSC2DataInfoCache, rpPos, applied, phaseLog, overlapped, rejected,
              aliased>>
initVars == <<startInitOk, conflictResult, initPc, initCall, initLog>>
hookVars == <<hookReturnModeTable, hookTable, el, hookIn, hookPc, hookPos,
              hookCalled, hookResult, callbackLog, hookTouched>>
fixedVars == <<tree0, modOrder, modCache, sortIn, sortOut, sortArg,
               docRoots, checkResult, mergeIn, mergeOut, hookVars>>

\* no hook registered, no hook call made
HookIdle ==
  /\ hookReturnModeTable = <<>>
  /\ hookTable = <<>>
  /\ el = [ml |-> Undefined, field |-> Undefined, failed |-> FALSE]
  /\ hookIn = [op |-> "none", src |-> "", cb |-> "return"]
  /\ hookPc = "idle"
  /\ hookPos = 0
  /\ hookCalled = <<>>
  /\ hookResult = Undefined
  /\ callbackLog = <<>>
  /\ hookTouched = FALSE

InitManager ==
  /\ originSC2DataInfoCache = Undefined
  /\ cSC2DataInfoAfterPatchCache = Undefined
  /\ startInitOk = FALSE
  /\ conflictResult = Undefined
  /\ pc = [c \in Calls |-> "idle"]
  /\ modSC2DataInfoCache = [c \in Calls |-> Undefined]
  /\ rpPos = [c \in Calls |-> <<0, 0>>]
  /\ applied = [c \in Calls |-> <<>>]
  /\ phaseLog = [c \in Calls |-> <<>>]
  /\ overlapped = [c \in Calls |-> FALSE]
  /\ rejected = [c \in Calls |-> FALSE]
  /\ aliased = [c \in Calls |-> {}]
  /\ lastTouch = 0
  /\ initPc = "idle"
  /\ initCall = 0
  /\ initLog = <<>>
  /\ nReplace = 0

Init ==
  /\ InitManager
  /\ tree \in InitTrees
  /\ tree0 = tree
  /\ \E s \in ModSetups : modOrder = s.modOrder /\ modCache = s.modCache
  /\ sortIn = <<>>
  /\ sortOut = <<>>
  /\ sortArg = <<>>
  /\ docRoots = 1
  /\ checkResult = Undefined
  /\ mergeIn = <<>>
  /\ mergeOut = Undefined
  /\ HookIdle

\* ------------------------------------------------------------ mod order walk
HasMod(mi) == modOrder[mi] \in DOMAIN modCache

PatchersOf(mi) ==
  IF HasMod(mi) THEN modCache[modOrder[mi]].replacePatcher ELSE <<>>

\* the outer loop from mod index mi on: the first patcher it reaches
RECURSIVE ScanMods(_)
ScanMods(mi) ==
  IF mi > Len(modOrder) THEN <<0, 0>>
  ELSE IF Len(PatchersOf(mi)) > 0 THEN <<mi, 1>>
  ELSE ScanMods(mi + 1)

\* a walk that gives up after the first mod
NextPos_firstModOnly(pos) ==
  IF pos[2] < Len(PatchersOf(pos[1])) THEN <<pos[1], pos[2] + 1>> ELSE <<0, 0>>

\* the position after pos: the inner loop, then the outer loop
NextPos(pos) ==
  IF pos[2] < Len(PatchersOf(pos[1])) THEN <<pos[1], pos[2] + 1>>
  ELSE ScanMods(pos[1] + 1)

\* modOrder.map(T => modCache.get(T)).filter(T => !!T).map(T => T.cache)
ModCaches ==
  LET present == SelectSeq(modOrder, LAMBDA n : n \in DOMAIN modCache)
  IN [i \in 1..Len(present) |-> modCache[present[i]].cache]

\* ModLoader.checkModConflictList: one entry per loaded mod, in load order,
\* { mod, result }: `mod` refers to the mod's own snapshot (here by the mod's
\* name) and `result` holds, per kind, the names the mod carries that a mod
\* loaded before it carries too.  The body is in another module; the content
\* of `result` follows the design's conflict simulation (a normalMerge that
\* only records the conflicts).
checkModConflictList ==
  LET present == SelectSeq(modOrder, LAMBDA n : n \in DOMAIN modCache)
  IN [i \in 1..Len(present) |->
        [mod |-> present[i],
         result |-> [k \in Kinds |->
                       {n \in NamesOf(ModCaches[i][k]) :
                          \E j \in 1..(i - 1) : n \in NamesOf(ModCaches[j][k])}]]]

\* ------------------------------------------------------------ patchModToGame
InFlight(p) == p \notin {"idle", "done", "failed"}

\* the call itself: runs up to `await PatchModToGame_start()`
CallPatch(c) ==
  /\ pc[c] = "idle"
  /\ \A d \in Calls : d < c => pc[d] # "idle"
  /\ pc' = [pc EXCEPT ![c] = "PatchModToGame_start"]
  /\ overlapped' = [overlapped EXCEPT ![c] = \E d \in Calls : d # c /\ InFlight(pc[d])]
  /\ phaseLog' = [phaseLog EXCEPT ![c] = Append(@, "PatchModToGame_start")]
  /\ UNCHANGED <<modSC2DataInfoCache, rpPos, applied, rejected, aliased>>

patchModToGame(c) ==
  /\ CallPatch(c)
  /\ UNCHANGED <<managerVars, initVars, fixedVars, lastTouch, nReplace>>

\* a loop that never enters its body
PcAtPos_skip(pos) == "applyReplacePatcher"

\* where a call waits once applyReplacePatcher has reached position pos
PcAtPos(pos) == IF pos = <<0, 0>> THEN "applyReplacePatcher" ELSE "ReplacePatcher_start"

\* PatchModToGame_start settled: flush, read the baseline, merge, start the
\* patcher loop up to its first await
PatchMerge(c, ok) ==
  /\ pc[c] = "PatchModToGame_start"
  /\ IF ok
     THEN LET origin == initSC2DataInfoCache(originSC2DataInfoCache, tree)
              cache == flushAfterPatchCache(Undefined, tree)
              base == getSC2DataInfoAfterPatch(cache, tree)
              pos == ScanMods(1)
          IN /\ originSC2DataInfoCache' = origin
             /\ cSC2DataInfoAfterPatchCache' = cache
             /\ modSC2DataInfoCache' = [modSC2DataInfoCache EXCEPT ![c] =
                   <<PatchedSnapshot(base[1], ModCaches)>>]
             /\ rpPos' = [rpPos EXCEPT ![c] = pos]
             /\ pc' = [pc EXCEPT ![c] = PcAtPos(pos)]
             /\ phaseLog' = [phaseLog EXCEPT ![c] = @ \o <<"MergingMods", "ApplyingPatchers">>]
             /\ aliased' = [aliased EXCEPT ![c] =
                   PatchedOwners({modOrder[i] : i \in {j \in 1..Len(modOrder) : HasMod(j)}})]
             /\ UNCHANGED rejected
     ELSE /\ pc' = [pc EXCEPT ![c] = "failed"]
          /\ rejected' = [rejected EXCEPT ![c] = TRUE]
          /\ UNCHANGED <<originSC2DataInfoCache, cSC2DataInfoAfterPatchCache,
                         modSC2DataInfoCache, rpPos, phaseLog, aliased>>
  /\ UNCHANGED <<tree, applied, overlapped, initVars, fixedVars, lastTouch, nReplace>>

\* a patcher loop without the try/catch
PcAfterPatcher_noCatch(rp) == IF rp.fail = "no" THEN "ReplacePatcher_end" ELSE "failed"

\* after the try/catch around rp.applyReplacePatcher: await ReplacePatcher_end
PcAfterPatcher(rp) == "ReplacePatcher_end"

\* ReplacePatcher_start settled: run the patcher inside try/catch
PatchApply(c, ok) ==
  /\ pc[c] = "ReplacePatcher_start"
  /\ IF ok
     THEN LET rp == PatchersOf(rpPos[c][1])[rpPos[c][2]]
          IN /\ modSC2DataInfoCache' = [modSC2DataInfoCache EXCEPT ![c] =
                   <<ApplyPatcher(@[1], rp)>>]
             /\ cSC2DataInfoAfterPatchCache' =
                   CacheAfterPatcher(cSC2DataInfoAfterPatchCache, aliased[c], rp)
             /\ modCache' = ModsAfterPatcher(modCache, aliased[c], rp)
             /\ applied' = [applied EXCEPT ![c] = Append(@, rpPos[c])]
             /\ pc' = [pc EXCEPT ![c] = PcAfterPatcher(rp)]
             /\ UNCHANGED rejected
     ELSE /\ pc' = [pc EXCEPT ![c] = "failed"]
          /\ rejected' = [rejected EXCEPT ![c] = TRUE]
          /\ UNCHANGED <<modSC2DataInfoCache, applied, cSC2DataInfoAfterPatchCache,
                         modCache>>
  /\ UNCHANGED <<tree, originSC2DataInfoCache, rpPos, phaseLog, overlapped, aliased,
                 initVars, tree0, modOrder, sortIn, sortOut, sortArg, docRoots, checkResult,
                 mergeIn, mergeOut, hookVars, lastTouch, nReplace>>

\* ReplacePatcher_end settled: the loops go on, or applyReplacePatcher returns
PatchNext(c, ok) ==
  /\ pc[c] = "ReplacePatcher_end"
  /\ IF ok
     THEN LET pos == NextPos(rpPos[c])
          IN /\ rpPos' = [rpPos EXCEPT ![c] = pos]
             /\ pc' = [pc EXCEPT ![c] = PcAtPos(pos)]
             /\ UNCHANGED rejected
     ELSE /\ pc' = [pc EXCEPT ![c] = "failed"]
          /\ rejected' = [rejected EXCEPT ![c] = TRUE]
          /\ UNCHANGED rpPos
  /\ UNCHANGED <<managerVars, modSC2DataInfoCache, applied, phaseLog, overlapped,
                 aliased, initVars, fixedVars, lastTouch, nReplace>>

\* applyReplacePatcher returned: build the nodes, swap, flush, all without
\* an await, then `await PatchModToGame_end()`
PatchSwap(c) ==
  /\ pc[c] = "applyReplacePatcher"
  /\ LET t == SwapTree(tree, modSC2DataInfoCache[c][1])
     IN /\ tree' = t
        /\ cSC2DataInfoAfterPatchCache' = flushAfterPatchCache(cSC2DataInfoAfterPatchCache, t)
        /\ originSC2DataInfoCache' = initSC2DataInfoCache(originSC2DataInfoCache, t)
  /\ modSC2DataInfoCache' = [modSC2DataInfoCache EXCEPT ![c] =
        <<[@[1] EXCEPT !.scriptFileItems = SortScripts(@)]>>]
  /\ pc' = [pc EXCEPT ![c] = "PatchModToGame_end"]
  /\ phaseLog' = [phaseLog EXCEPT ![c] =
        @ \o <<"SwappingTree", "CacheInvalidated", "PatchModToGame_end">>]
  /\ lastTouch' = c
  /\ UNCHANGED <<rpPos, applied, overlapped, rejected, aliased, initVars, fixedVars,
                 nReplace>>

\* PatchModToGame_end settled
PatchEnd(c, ok) ==
  /\ pc[c] = "PatchModToGame_end"
  /\ pc' = [pc EXCEPT ![c] = IF ok THEN "done" ELSE "failed"]
  /\ rejected' = [rejected EXCEPT ![c] = ~ok]
  /\ UNCHANGED <<managerVars, modSC2DataInfoCache, rpPos, applied, phaseLog,
                 overlapped, aliased, initVars, fixedVars, lastTouch, nReplace>>

\* ------------------------------------------------------------ startInit
\* a call that passes the guard and leaves the flag as it is
startInit_flagNotSet ==
  /\ ~startInitOk
  /\ Len(initLog) < 6
  /\ originSC2DataInfoCache' = initSC2DataInfoCache(originSC2DataInfoCache, tree)
  /\ initPc' = "loadMod"
  /\ initLog' = Append(initLog, "loadMod")
  /\ UNCHANGED <<tree, cSC2DataInfoAfterPatchCache, startInitOk, conflictResult,
                 initCall, callVars, fixedVars, lastTouch, nReplace>>

\* the first call passes the guard and runs up to `await loadMod(...)`
startInit ==
  /\ ~startInitOk
  /\ startInitOk' = TRUE
  /\ originSC2DataInfoCache' = initSC2DataInfoCache(originSC2DataInfoCache, tree)
  /\ initPc' = "loadMod"
  /\ initLog' = Append(initLog, "loadMod")
  /\ UNCHANGED <<tree, cSC2DataInfoAfterPatchCache, conflictResult, initCall,
                 callVars, fixedVars, lastTouch, nReplace>>

\* a later call returns at the guard
startInitAgain ==
  /\ startInitOk
  /\ UNCHANGED vars

\* DependenceChecker.check and ModLoader.checkModConflictList are given the
\* manager, and their bodies are in other modules: that they leave the tree
\* and both caches alone is the design's rule that the conflict simulation
\* touches neither the render tree nor any cache
ConflictCheckIsPure == UNCHANGED managerVars

\* loadMod settled: dependence check, conflict list, then
\* `await triggerHook('beforePatchModToGame')`
InitLoaded ==
  /\ initPc = "loadMod"
  /\ ConflictCheckIsPure
  /\ conflictResult' = <<checkModConflictList>>
  /\ initPc' = "beforePatchModToGame"
  /\ initLog' = initLog \o <<"checkModConflictList", "beforePatchModToGame">>
  /\ UNCHANGED <<startInitOk, initCall, callVars, fixedVars, lastTouch, nReplace>>

\* the hook settled: `await this.patchModToGame()`
InitPatch(c) ==
  /\ initPc = "beforePatchModToGame"
  /\ CallPatch(c)
  /\ initCall' = c
  /\ initPc' = "patchModToGame"
  /\ initLog' = Append(initLog, "patchModToGame")
  /\ UNCHANGED <<managerVars, startInitOk, conflictResult,
                 fixedVars, lastTouch, nReplace>>

\* the patch call settled: `await triggerHook('afterPatchModToGame')`, or the
\* rejection passes through startInit
InitPatched ==
  /\ initPc = "patchModToGame"
  /\ pc[initCall] \in {"done", "failed"}
  /\ initPc' = IF pc[initCall] = "done" THEN "afterPatchModToGame" ELSE "failed"
  /\ initLog' = IF pc[initCall] = "done"
                THEN Append(initLog, "afterPatchModToGame") ELSE initLog
  /\ UNCHANGED <<managerVars, startInitOk, conflictResult, initCall,
                 callVars, fixedVars, lastTouch, nReplace>>

InitEnd ==
  /\ initPc = "afterPatchModToGame"
  /\ initPc' = "done"
  /\ UNCHANGED <<managerVars, startInitOk, conflictResult, initCall, initLog,
                 callVars, fixedVars, lastTouch, nReplace>>

\* ------------------------------------------------------------ cache operations
\* rootNode is undefined in a document without tw-storydata, and building a
\* cache from it throws before anything is assigned
HasRootNode == docRoots >= 1

getSC2DataInfoCache ==
  /\ originSC2DataInfoCache # Undefined \/ HasRootNode
  /\ originSC2DataInfoCache' = initSC2DataInfoCache(originSC2DataInfoCache, tree)
  /\ UNCHANGED <<tree, cSC2DataInfoAfterPatchCache, callVars, initVars, fixedVars,
                 lastTouch, nReplace>>

GetAfterPatch ==
  /\ (originSC2DataInfoCache # Undefined /\ cSC2DataInfoAfterPatchCache # Undefined)
       \/ HasRootNode
  /\ originSC2DataInfoCache' = initSC2DataInfoCache(originSC2DataInfoCache, tree)
  /\ cSC2DataInfoAfterPatchCache' =
        getSC2DataInfoAfterPatch(cSC2DataInfoAfterPatchCache, tree)
  /\ UNCHANGED <<tree, callVars, initVars, fixedVars, lastTouch, nReplace>>

\* earlyResetSC2DataInfoCache and flushAfterPatchCache called from outside
earlyResetSC2DataInfoCache ==
  /\ originSC2DataInfoCache' = initSC2DataInfoCache(originSC2DataInfoCache, tree)
  /\ cSC2DataInfoAfterPatchCache' =
        flushAfterPatchCache(cSC2DataInfoAfterPatchCache, tree)
  /\ UNCHANGED <<tree, callVars, initVars, fixedVars, lastTouch, nReplace>>

cleanAllCacheAfterModLoadEnd ==
  /\ originSC2DataInfoCache' = Undefined
  /\ cSC2DataInfoAfterPatchCache' = Undefined
  /\ lastTouch' = -2
  /\ UNCHANGED <<tree, callVars, initVars, fixedVars, nReplace>>

\* ------------------------------------------------------------ rePlacePassage
PassageIndexes(t) == {i \in 1..Len(t) : t[i].tag = "tw-passagedata"}

RemoveAt(t, rem) ==
  LET keep == {i \in 1..Len(t) : i \notin rem}
      F[i \in 0..Len(t)] ==
        IF i = 0 THEN <<>>
        ELSE IF i \in keep THEN Append(F[i - 1], t[i]) ELSE F[i - 1]
  IN F[Len(t)]

AddedPassages == {<<>>, <<makePassageNode(Item(<<3>>, "b", 9))>>}

\* removeChild for each node to remove, appendChild for each node to add;
\* neither cache is touched
rePlacePassage(rem, add) ==
  /\ nReplace < MaxReplace
  /\ rem # {} \/ add # <<>>
  /\ tree' = RemoveAt(tree, rem) \o add
  /\ nReplace' = nReplace + 1
  /\ lastTouch' = -1
  /\ UNCHANGED <<originSC2DataInfoCache, cSC2DataInfoAfterPatchCache, callVars,
                 initVars, fixedVars>>

\* ------------------------------------------------------------ specification
\* The patch pipeline and startInit, every await a point where another call
\* may run.
Next ==
  \/ \E c \in Calls : patchModToGame(c)
  \/ \E c \in Calls, ok \in BOOLEAN : PatchMerge(c, ok)
  \/ \E c \in Calls, ok \in BOOLEAN : PatchApply(c, ok)
  \/ \E c \in Calls, ok \in BOOLEAN : PatchNext(c, ok)
  \/ \E c \in Calls : PatchSwap(c)
  \/ \E c \in Calls, ok \in BOOLEAN : PatchEnd(c, ok)
  \/ startInit
  \/ startInitAgain
  \/ InitLoaded
  \/ \E c \in Calls : InitPatch(c)
  \/ InitPatched
  \/ InitEnd

Spec == Init /\ [][Next]_vars

\* ------------------------------------------------------------ the manager's caches
\* Patch calls together with the cache operations and rePlacePassage, called
\* from outside at any await; here every lifecycle callback settles.
ManagerCalls == 1..MaxManagerCalls

FirstPassage(t) ==
  {i \in PassageIndexes(t) : \A j \in PassageIndexes(t) : i <= j}

ManagerNext ==
  \/ \E c \in ManagerCalls : patchModToGame(c)
  \/ \E c \in ManagerCalls : PatchMerge(c, TRUE)
  \/ \E c \in ManagerCalls : PatchApply(c, TRUE)
  \/ \E c \in ManagerCalls : PatchNext(c, TRUE)
  \/ \E c \in ManagerCalls : PatchSwap(c)
  \/ \E c \in ManagerCalls : PatchEnd(c, TRUE)
  \/ getSC2DataInfoCache
  \/ GetAfterPatch
  \/ earlyResetSC2DataInfoCache
  \/ cleanAllCacheAfterModLoadEnd
  \/ \E rem \in {{}} \cup {{i} : i \in FirstPassage(tree)}, add \in AddedPassages :
        rePlacePassage(rem, add)

ManagerSpec == Init /\ [][ManagerNext]_vars

\* ------------------------------------------------------------ makeScriptNode alone
SortIds == {Undefined, <<-1>>, <<2>>, <<5>>}
SortItems == {Item(id, n, 0) : id \in SortIds, n \in {"a", "b"}}
SortInputs == UNION {[1..n -> SortItems] : n \in 0..MaxSortLen}

SortInit ==
  /\ InitManager
  /\ tree = <<>>
  /\ tree0 = <<>>
  /\ modOrder = <<>>
  /\ modCache = <<>>
  /\ sortIn \in SortInputs
  /\ sortOut = Undefined
  /\ sortArg = Undefined
  /\ docRoots = 1
  /\ checkResult = Undefined
  /\ mergeIn = <<>>
  /\ mergeOut = Undefined
  /\ HookIdle

\* makeScriptNode applied to a snapshot whose scripts are sortIn; the sort is
\* in place, so the caller's list is left sorted
MakeScriptNodeAlone ==
  /\ sortOut = Undefined
  /\ sortArg' = <<sortIn>>
  /\ sortOut' = <<makeScriptNode([EmptySC2DataInfo EXCEPT !.scriptFileItems = sortIn])>>
  /\ sortIn' = SortScripts(sortIn)
  /\ UNCHANGED <<managerVars, callVars, initVars, tree0, modOrder, modCache,
                 lastTouch, nReplace, docRoots, checkResult, mergeIn, mergeOut,
                 hookVars>>

SortNext == MakeScriptNodeAlone

SortSpec == SortInit /\ [][SortNext]_vars

\* ------------------------------------------------------------ checkSC2Data alone
Repeat(n, x) == [i \in 1..n |-> x]

\* the children of the first tw-storydata: so many style, script and passage
\* nodes, and perhaps a tw-storydata nested in it
CheckTrees ==
  { Repeat(st, Node("style", <<Item(<<1>>, "a", 0)>>))
      \o Repeat(sc, Node("script", <<Item(<<1>>, "a", 0)>>))
      \o Repeat(pa, Node("tw-passagedata", <<Item(<<1>>, "a", 0)>>))
      \o Repeat(ne, Node("tw-storydata", <<>>)) :
    st \in 0..MaxNodes, sc \in 0..MaxNodes, pa \in 0..MaxNodes, ne \in 0..1 }

CheckInit ==
  /\ InitManager
  /\ docRoots \in 0..MaxNodes
  /\ tree \in IF docRoots = 0 THEN {<<>>} ELSE CheckTrees
  /\ tree0 = tree
  /\ modOrder = <<>>
  /\ modCache = <<>>
  /\ sortIn = <<>>
  /\ sortOut = <<>>
  /\ sortArg = <<>>
  /\ checkResult = Undefined
  /\ mergeIn = <<>>
  /\ mergeOut = Undefined
  /\ HookIdle

CheckSC2DataAlone ==
  /\ checkResult' = <<checkSC2Data(docRoots, tree)>>
  /\ UNCHANGED <<managerVars, callVars, initVars, tree0, modOrder, modCache,
                 sortIn, sortOut, sortArg, docRoots, mergeIn, mergeOut, hookVars, lastTouch,
                 nReplace>>

\* the cache getters may run before or after the check
CheckNext ==
  \/ CheckSC2DataAlone
  \/ getSC2DataInfoCache
  \/ GetAfterPatch

CheckSpec == CheckInit /\ [][CheckNext]_vars

\* ------------------------------------------------------------ the merges alone
MergeNames == {"a", "b", "c"}

\* where a run of L records is cut into n snapshots
Cuts(n, L) ==
  {cut \in [0..n -> 0..L] :
     cut[0] = 0 /\ cut[n] = L /\ \A i \in 1..n : cut[i - 1] <= cut[i]}

\* sequences of at most MaxMergeInputs name lists, MaxMergeRecords names in all
MergeLists ==
  UNION { { [i \in 1..n |-> SubSeq(flat, cut[i - 1] + 1, cut[i])] :
              flat \in [1..L -> MergeNames], cut \in Cuts(n, L) } :
          L \in 0..MaxMergeRecords, n \in 0..MaxMergeInputs }

\* the i-th input snapshot: records of one kind with the listed names, each
\* with a content of its own
SnapOfNames(i, kind, names) ==
  [EmptySC2DataInfo EXCEPT
     ![kind] = [j \in 1..Len(names) |-> Item(Undefined, names[j], 10 * i + j)]]

MergeSnaps ==
  [i \in 1..Len(mergeIn.lists) |-> SnapOfNames(i, mergeIn.kind, mergeIn.lists[i])]

MergeInit ==
  /\ InitManager
  /\ tree = <<>>
  /\ tree0 = <<>>
  /\ modOrder = <<>>
  /\ modCache = <<>>
  /\ sortIn = <<>>
  /\ sortOut = <<>>
  /\ sortArg = <<>>
  /\ docRoots = 1
  /\ checkResult = Undefined
  /\ mergeIn \in [kind : Kinds, lists : MergeLists]
  /\ mergeOut = Undefined
  /\ HookIdle

MergeDone(op, out, conflict) ==
  /\ mergeOut = Undefined
  /\ mergeOut' = <<[op |-> op, out |-> out, conflict |-> conflict]>>
  /\ UNCHANGED <<managerVars, callVars, initVars, tree0, modOrder, modCache,
                 sortIn, sortOut, sortArg, docRoots, checkResult, mergeIn, hookVars, lastTouch,
                 nReplace>>

\* replaceMerge of the first snapshot (base) and the second (overlay)
ReplaceMergeAlone ==
  /\ Len(mergeIn.lists) >= 2
  /\ MergeDone("replaceMerge",
               replaceMergeSC2DataInfoCache(MergeSnaps[1], MergeSnaps[2]),
               [k \in Kinds |-> {}])

\* normalMerge of all the snapshots
NormalMergeAlone ==
  MergeDone("normalMerge", normalMergeSC2DataInfoCache(MergeSnaps),
            normalMergeConflict(MergeSnaps))

\* the merge step of patchModToGame: the first snapshot is the baseline, the
\* others are the mods' in load order
PatchMergeAlone ==
  /\ Len(mergeIn.lists) >= 1
  /\ MergeDone("patchModToGame", PatchedSnapshot(MergeSnaps[1], Tail(MergeSnaps)),
               [k \in Kinds |-> {}])

MergeNext ==
  \/ ReplaceMergeAlone
  \/ NormalMergeAlone
  \/ PatchMergeAlone

MergeSpec == MergeInit /\ [][MergeNext]_vars

\* ------------------------------------------------------------ HtmlTagSrcHook
\* A hook is known by its key and by what it does when called: it accepts
\* (a return-mode hook then returns [true, its key]), it reports failure, or
\* it throws.  A table is a Map: a sequence in insertion order.
HookKeys == {"k1", "k2"}
HookOutcomes == {"accept", "reject", "throw"}

Hook(key, out) == [key |-> key, out |-> out]

KeyIndex(table, key) ==
  IF \E i \in 1..Len(table) : table[i].key = key
  THEN CHOOSE i \in 1..Len(table) : table[i].key = key
  ELSE 0

\* Map.set: a new key goes last, a known key keeps its place
MapSet(table, key, out) ==
  IF KeyIndex(table, key) = 0 THEN Append(table, Hook(key, out))
  ELSE [j \in 1..Len(table) |->
          IF j = KeyIndex(table, key) THEN Hook(key, out) ELSE table[j]]

HookInFlight == hookPc \in {"ret", "el", "callback"}

CanRegister(table, key) ==
  /\ hookPc \notin {"done", "failed"}
  /\ KeyIndex(table, key) # 0 \/ Len(hookReturnModeTable) + Len(hookTable) < MaxHooks

otherVars ==
  <<managerVars, callVars, initVars, tree0, modOrder, modCache, sortIn, sortOut, sortArg,
    docRoots, checkResult, mergeIn, mergeOut, lastTouch, nReplace>>

addHook(key, out) ==
  /\ CanRegister(hookTable, key)
  /\ hookTable' = MapSet(hookTable, key, out)
  /\ hookTouched' = (hookTouched \/ HookInFlight)
  /\ UNCHANGED <<hookReturnModeTable, el, hookIn, hookPc, hookPos, hookCalled,
                 hookResult, callbackLog, otherVars>>

addReturnModeHook(key, out) ==
  /\ CanRegister(hookReturnModeTable, key)
  /\ hookReturnModeTable' = MapSet(hookReturnModeTable, key, out)
  /\ hookTouched' = (hookTouched \/ HookInFlight)
  /\ UNCHANGED <<hookTable, el, hookIn, hookPc, hookPos, hookCalled,
                 hookResult, callbackLog, otherVars>>

\* where a call goes next: the await it reaches, the hook and the callback
\* it invokes on the way, what it returns, what it makes of the element
Ctl(p, pos, called, cb, res, e) ==
  [pc |-> p, pos |-> pos, called |-> called, cb |-> cb, res |-> res, el |-> e]

HookReturn(flag, value) == <<[flag |-> flag, value |-> value]>>

\* the call rejects
HookFailed == Ctl("failed", 0, <<>>, <<>>, Undefined, el)

\* el.setAttribute('ML-src_replace_failed', '1'); el.setAttribute(field, mlSrc)
FailElement(e) == [ml |-> e.ml, field |-> e.ml, failed |-> TRUE]

\* a hook result written back as the original source
SetField_mlSrc(e, value) == [ml |-> e.ml, field |-> e.ml, failed |-> e.failed]

\* el.setAttribute(field, r[1])
SetField(e, value) == [ml |-> e.ml, field |-> <<value>>, failed |-> e.failed]

\* the element-hook loop of doHook reaches index i
ElAt(i) ==
  IF i <= Len(hookTable)
  THEN Ctl("el", i, <<<<"el", hookTable[i].key, hookTable[i].out>>>>, <<>>, Undefined, el)
  ELSE Ctl("done", 0, <<>>, <<>>, HookReturn(FALSE, Undefined), FailElement(el))

\* the return-mode loop reaches index i; past the last hook doHook goes on
\* with the element hooks, doHookCallback invokes callback(src) and
\* requestImageBySrc returns undefined
RetAt(op, src, i) ==
  IF i <= Len(hookReturnModeTable)
  THEN Ctl("ret", i,
           <<<<"ret", hookReturnModeTable[i].key, hookReturnModeTable[i].out>>>>,
           <<>>, Undefined, el)
  ELSE IF op = "doHook" THEN ElAt(1)
  ELSE IF op = "doHookCallback" THEN Ctl("callback", 0, <<>>, <<src>>, Undefined, el)
  ELSE Ctl("done", 0, <<>>, <<>>, HookReturn(FALSE, Undefined), el)

\* a loop body without try/catch
OnHookSettled_noCatch(out, onAccept, next) ==
  IF out = "accept" THEN onAccept ELSE IF out = "throw" THEN HookFailed ELSE next

\* the body of a loop: the hook accepted, or it reported failure, or it threw
\* and the catch logged it
OnHookSettled(out, onAccept, next) ==
  IF out = "accept" THEN onAccept ELSE next

\* `await callback(...)` threw: inside the try of the loop it is caught like
\* a hook's error, after the loop it passes through
OnCallbackThrow(inTry, next) == IF inTry THEN next ELSE HookFailed

Apply(ctl) ==
  /\ hookPc' = ctl.pc
  /\ hookPos' = ctl.pos
  /\ hookCalled' = hookCalled \o ctl.called
  /\ callbackLog' = callbackLog \o ctl.cb
  /\ hookResult' = ctl.res
  /\ el' = ctl.el

doHook ==
  /\ hookPc = "idle"
  /\ LET mlSrc == IF el.ml = Undefined THEN "" ELSE el.ml[1]
     IN /\ hookIn' = [op |-> "doHook", src |-> mlSrc, cb |-> "return"]
        /\ Apply(IF mlSrc = ""
                 THEN Ctl("done", 0, <<>>, <<>>, HookReturn(FALSE, Undefined), el)
                 ELSE RetAt("doHook", mlSrc, 1))
  /\ UNCHANGED <<hookReturnModeTable, hookTable, hookTouched, otherVars>>

doHookCallback(src, cb) ==
  /\ hookPc = "idle"
  /\ hookIn' = [op |-> "doHookCallback", src |-> src, cb |-> cb]
  /\ Apply(IF src = ""
           THEN Ctl("callback", 0, <<>>, <<src>>, Undefined, el)
           ELSE RetAt("doHookCallback", src, 1))
  /\ UNCHANGED <<hookReturnModeTable, hookTable, hookTouched, otherVars>>

requestImageBySrc(src) ==
  /\ hookPc = "idle"
  /\ hookIn' = [op |-> "requestImageBySrc", src |-> src, cb |-> "return"]
  /\ Apply(IF src = ""
           THEN Ctl("done", 0, <<>>, <<>>, HookReturn(FALSE, Undefined), el)
           ELSE RetAt("requestImageBySrc", src, 1))
  /\ UNCHANGED <<hookReturnModeTable, hookTable, hookTouched, otherVars>>

\* `await hook(mlSrc)` of a return-mode loop settled
RetSettled ==
  /\ hookPc = "ret"
  /\ LET h == Last(hookCalled)
         onAccept ==
           IF hookIn.op = "doHook"
           THEN Ctl("done", 0, <<>>, <<>>, HookReturn(TRUE, Undefined), SetField(el, h[2]))
           ELSE IF hookIn.op = "doHookCallback"
           THEN Ctl("callback", hookPos, <<>>, <<h[2]>>, Undefined, el)
           ELSE Ctl("done", 0, <<>>, <<>>, HookReturn(TRUE, <<h[2]>>), el)
     IN Apply(OnHookSettled(h[3], onAccept, RetAt(hookIn.op, hookIn.src, hookPos + 1)))
  /\ UNCHANGED <<hookReturnModeTable, hookTable, hookIn, hookTouched, otherVars>>

\* `await hook(el, mlSrc, field)` of doHook settled
ElSettled ==
  /\ hookPc = "el"
  /\ Apply(OnHookSettled(Last(hookCalled)[3],
                         Ctl("done", 0, <<>>, <<>>, HookReturn(TRUE, Undefined), el),
                         ElAt(hookPos + 1)))
  /\ UNCHANGED <<hookReturnModeTable, hookTable, hookIn, hookTouched, otherVars>>

\* `await callback(...)` of doHookCallback settled; hookPos is the index of
\* the hook whose try block the callback was invoked in, 0 outside the loop
CallbackSettled ==
  /\ hookPc = "callback"
  /\ Apply(IF hookIn.cb = "return"
           THEN Ctl("done", 0, <<>>, <<>>,
                    HookReturn(hookPos > 0, <<Last(callbackLog)>>), el)
           ELSE OnCallbackThrow(hookPos > 0,
                                RetAt(hookIn.op, hookIn.src, hookPos + 1)))
  /\ UNCHANGED <<hookReturnModeTable, hookTable, hookIn, hookTouched, otherVars>>

HookElements ==
  {[ml |-> m, field |-> Undefined, failed |-> FALSE] : m \in {Undefined, <<"">>, <<"s">>}}

HookInit ==
  /\ InitManager
  /\ tree = <<>>
  /\ tree0 = <<>>
  /\ modOrder = <<>>
  /\ modCache = <<>>
  /\ sortIn = <<>>
  /\ sortOut = <<>>
  /\ sortArg = <<>>
  /\ docRoots = 1
  /\ checkResult = Undefined
  /\ mergeIn = <<>>
  /\ mergeOut = Undefined
  /\ hookReturnModeTable = <<>>
  /\ hookTable = <<>>
  /\ el \in HookElements
  /\ hookIn = [op |-> "none", src |-> "", cb |-> "return"]
  /\ hookPc = "idle"
  /\ hookPos = 0
  /\ hookCalled = <<>>
  /\ hookResult = Undefined
  /\ callbackLog = <<>>
  /\ hookTouched = FALSE

HookNext ==
  \/ \E key \in HookKeys, out \in HookOutcomes : addHook(key, out)
  \/ \E key \in HookKeys, out \in HookOutcomes : addReturnModeHook(key, out)
  \/ doHook
  \/ \E src \in {"", "s"}, cb \in {"return", "throw"} : doHookCallback(src, cb)
  \/ \E src \in {"", "s"} : requestImageBySrc(src)
  \/ RetSettled
  \/ ElSettled
  \/ CallbackSettled

HookSpec == HookInit /\ [][HookNext]_vars

\* ------------------------------------------------------------ properties
Cache == cSC2DataInfoAfterPatchCache
Origin == originSC2DataInfoCache

Range(f) == {f[i] : i \in DOMAIN f}

IsPrefix(a, b) == Len(a) <= Len(b) /\ SubSeq(b, 1, Len(a)) = a

Swapped(c) == "SwappingTree" \in Range(phaseLog[c])

PastPatchers(c) == pc[c] \in {"applyReplacePatcher", "PatchModToGame_end", "done"}

PastSwap(c) == pc[c] \in {"PatchModToGame_end", "done"}

\* every patcher of every mod that modOrder names and modCache holds
AllPositions ==
  UNION {{<<mi, ti>> :
            ti \in 1..(IF modOrder[mi] \in DOMAIN modCache
                       THEN Len(modCache[modOrder[mi]].replacePatcher) ELSE 0)} :
         mi \in 1..Len(modOrder)}

PatcherAt(pos) == modCache[modOrder[pos[1]]].replacePatcher[pos[2]]

LexLess(p, q) == p[1] < q[1] \/ (p[1] = q[1] /\ p[2] < q[2])

\* the nodes a swap by a call holding snapshot sc leaves under the root
NewNodes(sc) ==
  <<makeScriptNode(sc), makeStyleNode(sc)>>
    \o [i \in 1..Len(sc.passageDataItems) |-> makePassageNode(sc.passageDataItems[i])]

\* C1: a patchModToGame call that starts while another call is in flight is
\* rejected: it never swaps the render tree.
C1_OverlappingCallRejected ==
  \A c \in Calls : overlapped[c] => ~Swapped(c)

\* C2: the render tree is never seen between "old nodes removed" and "new
\* nodes appended": it is the tree of construction until a call swaps it, and
\* from then on exactly the nodes the last swapping call built.
C2_SwapIsOneStep ==
  /\ lastTouch = 0 => tree = tree0
  /\ \A c \in Calls :
       lastTouch = c =>
         /\ tree = NewNodes(modSC2DataInfoCache[c][1])
         /\ Len(scriptNode(tree)) = 1
         /\ Len(styleNode(tree)) = 1

C2_Witness ==
  \E c, d \in Calls :
    /\ c # d
    /\ lastTouch = c
    /\ InFlight(pc[d])
    /\ Len(scriptNode(tree0)) = 2
    /\ tree # tree0

\* C3: once a call has passed its swap, and nothing has rewritten the tree or
\* dropped the caches since, the after-patch cache is present and equals a
\* fresh capture of the tree.
C3_CacheFreshAfterPatch ==
  \A c \in Calls :
    PastSwap(c) /\ lastTouch = c =>
      /\ Cache # Undefined
      /\ Cache[1] = createNewSC2DataInfoFromNow(tree)

C3_Witness ==
  \E c \in Calls :
    /\ pc[c] = "done"
    /\ lastTouch = c
    /\ nReplace > 0
    /\ createNewSC2DataInfoFromNow(tree) # createNewSC2DataInfoFromNow(tree0)
    /\ Cache = <<createNewSC2DataInfoFromNow(tree)>>

\* C4: the next getSC2DataInfoAfterPatch always returns a capture of the
\* current render tree.
C4_NextReadIsCurrent ==
  getSC2DataInfoAfterPatch(Cache, tree) = <<createNewSC2DataInfoFromNow(tree)>>

\* C5: once captured, the origin snapshot is never set back to undefined nor
\* replaced.
C5_OriginCapturedOnce ==
  [][Origin # Undefined => Origin' = Origin]_vars

\* C6: a patcher that throws never fails the call: a call fails only when a
\* lifecycle callback rejects, every patcher after the throwing one is still
\* run, and the swap and the cache refresh follow.
C6_ThrowIsCaught ==
  \A c \in Calls :
    /\ pc[c] = "failed" => rejected[c]
    /\ PastPatchers(c) => Range(applied[c]) = AllPositions
    /\ PastSwap(c) => Swapped(c) /\ "CacheInvalidated" \in Range(phaseLog[c])

C6_Witness ==
  \E c \in Calls :
    /\ pc[c] = "done"
    /\ Swapped(c)
    /\ Len(applied[c]) >= 2
    /\ PatcherAt(applied[c][1]).fail # "no"

\* C7: no patchModToGame call ever ends by throwing.
C7_NoExceptionEscapes ==
  \A c \in Calls : pc[c] # "failed"

\* C8 as written: entries with a non-negative integer id come first, ascending
\* and stable; all others follow in their input order.
WellFormedId(id) == isSafeInteger(id) /\ id[1] >= 0

C8_NonNegativeIdsFirst ==
  sortOut # Undefined =>
    LET out == sortOut[1].items
    IN /\ Len(out) = Len(sortArg[1])
       /\ \A i, j \in 1..Len(out) :
            i < j /\ WellFormedId(out[j].id) =>
              WellFormedId(out[i].id) /\ out[i].id[1] <= out[j].id[1]
       /\ \A id \in SortIds :
            WellFormedId(id) =>
              SelectSeq(out, LAMBDA r : r.id = id) = SelectSeq(sortArg[1], LAMBDA r : r.id = id)
       /\ SelectSeq(out, LAMBDA r : ~WellFormedId(r.id))
            = SelectSeq(sortArg[1], LAMBDA r : ~WellFormedId(r.id))

\* C8, amended: entries whose id is a safe integer, negative ones included,
\* come first in ascending id order, equal ids keeping their input order; the
\* entries whose id is no safe integer follow in their input order; nothing
\* is added or dropped, and the caller's list is left in the same order.
C8_SafeIntegerIdsFirst ==
  sortOut # Undefined =>
    LET out == sortOut[1].items
    IN /\ Len(out) = Len(sortArg[1])
       /\ sortIn = out
       /\ \A i, j \in 1..Len(out) :
            i < j /\ isSafeInteger(out[j].id) =>
              isSafeInteger(out[i].id) /\ out[i].id[1] <= out[j].id[1]
       /\ \A id \in SortIds :
            SelectSeq(out, LAMBDA r : r.id = id) = SelectSeq(sortArg[1], LAMBDA r : r.id = id)

C8_Witness ==
  /\ sortArg = <<<<Item(Undefined, "a", 0), Item(<<5>>, "a", 0),
                  Item(Undefined, "b", 0), Item(<<2>>, "b", 0)>>>>
  /\ sortIn = sortOut[1].items
  /\ sortOut = <<Node("script", <<Item(<<2>>, "b", 0), Item(<<5>>, "a", 0),
                                  Item(Undefined, "a", 0), Item(Undefined, "b", 0)>>)>>

\* C9: within one call the patchers run in modOrder, and inside a mod in the
\* order of its replacePatcher list; when the loop is over each patcher of each
\* loaded mod has run exactly once.
C9_PatchersInLoadOrder ==
  \A c \in Calls :
    /\ \A i, j \in 1..Len(applied[c]) : i < j => LexLess(applied[c][i], applied[c][j])
    /\ Range(applied[c]) \subseteq AllPositions
    /\ PastPatchers(c) =>
         Range(applied[c]) = AllPositions /\ Len(applied[c]) = Cardinality(AllPositions)

C9_Witness ==
  \E c \in Calls :
    /\ pc[c] = "done"
    /\ applied[c] = <<<<1, 1>>, <<1, 2>>, <<2, 1>>>>

\* C10: a call enters its phases in the fixed order, none skipped or repeated:
\* the merge is done before the first patcher runs, all patchers have run
\* before the tree is swapped, and the end notification follows the refresh.
PhaseOrder ==
  <<"PatchModToGame_start", "MergingMods", "ApplyingPatchers", "SwappingTree",
    "CacheInvalidated", "PatchModToGame_end">>

C10_PhasesInOrder ==
  \A c \in Calls :
    /\ IsPrefix(phaseLog[c], PhaseOrder)
    /\ applied[c] # <<>> => modSC2DataInfoCache[c] # Undefined
    /\ Swapped(c) => Range(applied[c]) = AllPositions
    /\ lastTouch = c => Swapped(c)
    /\ pc[c] = "done" => phaseLog[c] = PhaseOrder

C10_Witness ==
  \E c \in Calls :
    /\ pc[c] = "done"
    /\ phaseLog[c] = PhaseOrder
    /\ Len(applied[c]) = 3

\* ------------------------------------------------------------ checkSC2Data
\* the shape the tree is expected to have: one tw-storydata holding exactly
\* one style node, exactly one script node and any number of passage nodes
ExpectedShape ==
  /\ docRoots + Len(NodesByTag(tree, "tw-storydata")) = 1
  /\ Len(styleNode(tree)) = 1
  /\ Len(scriptNode(tree)) = 1

\* C11: checkSC2Data reports the tree valid exactly when it has the expected
\* shape (one root, one style node, one script node, zero or more passage
\* nodes), and it changes neither the tree nor a cache.
C11_ValidIffExpectedShape ==
  /\ checkResult # Undefined => (checkResult[1] <=> ExpectedShape)
  /\ tree = tree0

\* the part of C11 that the code keeps: the check changes nothing
C11_CheckChangesNothing ==
  [][checkResult' # checkResult =>
       tree' = tree /\ Origin' = Origin /\ Cache' = Cache]_vars

\* no document is ever reported valid
C11_NeverValid == checkResult # Undefined => ~checkResult[1]

\* ------------------------------------------------------------ the swapped tree
\* C12: after every completed patchModToGame call, whatever number of style
\* and script nodes the tree held before, the tree holds exactly one style
\* node, exactly one script node, and one passage node per passage record of
\* the patched snapshot last swapped in, in that snapshot's order.
C12_OneNodePerKindAfterPatch ==
  \A c \in Calls :
    pc[c] = "done" =>
      /\ lastTouch \in Calls
      /\ Len(styleNode(tree)) = 1
      /\ Len(scriptNode(tree)) = 1
      /\ LET passages == modSC2DataInfoCache[lastTouch][1].passageDataItems
         IN /\ Len(passageDataNodeList(tree)) = Len(passages)
            /\ \A i \in 1..Len(passages) :
                 /\ passageDataNodeList(tree)[i].items[1].name = passages[i].name
                 /\ passageDataNodeList(tree)[i].items[1].content = passages[i].content

\* a call has completed on a tree that had no style node and two script nodes
C12_Witness ==
  \E c \in Calls :
    /\ pc[c] = "done"
    /\ Len(styleNode(tree0)) = 0
    /\ Len(scriptNode(tree0)) = 2
    /\ Len(passageDataNodeList(tree)) >= 2

\* ------------------------------------------------------------ the merges
MergeOp == IF mergeOut = Undefined THEN "none" ELSE mergeOut[1].op

MergeKind == mergeIn.kind

\* the records of the merged kind in the i-th input and in the output
MergeInput(i) == MergeSnaps[i][MergeKind]

MergeOutput == mergeOut[1].out[MergeKind]

NoDuplicate(items) ==
  \A i, j \in 1..Len(items) : items[i].name = items[j].name => i = j

RecordNamed(items, name) == CHOOSE r \in Range(items) : r.name = name

OtherKindsEmpty ==
  \A k \in Kinds \ {MergeKind} : mergeOut[1].out[k] = <<>>

\* the last record of the name in the list
LastNamed(items, name) ==
  items[CHOOSE i \in 1..Len(items) :
          /\ items[i].name = name
          /\ \A j \in (i + 1)..Len(items) : items[j].name # name]

EmptyOverlay ==
  \/ MergeOp = "replaceMerge" /\ MergeSnaps[2] = EmptySC2DataInfo
  \/ /\ MergeOp = "patchModToGame"
     /\ \A i \in 2..Len(MergeSnaps) : MergeSnaps[i] = EmptySC2DataInfo

C15_ConflictIffInTwoSnapshots ==
  MergeOp = "normalMerge" =>
    LET names == [k \in Kinds |-> [i \in 1..Len(mergeIn.lists) |-> NamesOf(MergeSnaps[i][k])]]
    IN /\ \A k \in Kinds :
            mergeOut[1].conflict[k] =
              {n \in MergeNames :
                 \E i, j \in 1..Len(mergeIn.lists) :
                    i # j /\ n \in names[k][i] /\ n \in names[k][j]}
       /\ NamesOf(MergeOutput) =
            UNION {names[MergeKind][i] : i \in 1..Len(mergeIn.lists)}

\* one name twice inside one snapshot and not reported, another name in two
\* snapshots and reported
C15_Witness ==
  /\ MergeOp = "normalMerge"
  /\ mergeOut[1].conflict[MergeKind] # {}
  /\ \E i \in 1..Len(MergeSnaps) :
       /\ ~NoDuplicate(MergeInput(i))
       /\ NamesOf(MergeInput(i)) \cap mergeOut[1].conflict[MergeKind] = {}

\* all input records of the merged kind, in input order
MergeFlat == Flatten([i \in 1..Len(MergeSnaps) |-> MergeInput(i)])

\* C16: the output of normalMerge holds each distinct name once, the names
\* in the order of their first occurrence in the input sequence, each with
\* the content of its last occurrence.
C16_FirstPositionLastContent ==
  MergeOp = "normalMerge" =>
    LET flat == MergeFlat
        out == MergeOutput
    IN /\ NoDuplicate(out)
       /\ NamesOf(out) = NamesOf(flat)
       /\ \A p, q \in 1..Len(out) :
            p < q => \E i \in 1..Len(flat) :
                       /\ flat[i].name = out[p].name
                       /\ \A j \in 1..i : flat[j].name # out[q].name
       /\ \A p \in 1..Len(out) :
            \E i \in 1..Len(flat) :
              /\ flat[i] = out[p]
              /\ \A j \in (i + 1)..Len(flat) : flat[j].name # out[p].name
       /\ OtherKindsEmpty

\* [a], [b, a], [a]: a stays first and carries the content of the third
\* snapshot
C16_Witness ==
  /\ MergeOp = "normalMerge"
  /\ Len(MergeSnaps) = 3
  /\ Len(MergeInput(1)) = 1 /\ Len(MergeInput(2)) = 2 /\ Len(MergeInput(3)) = 1
  /\ Len(MergeOutput) = 2
  /\ MergeInput(2)[1].name = MergeOutput[2].name
  /\ MergeOutput[1] = MergeInput(3)[1]
  /\ MergeInput(1)[1].name = MergeOutput[1].name

\* ------------------------------------------------------------ patching again
\* C19: when the mods carry no transforms and a second patchModToGame call
\* runs after a first has completed, the tree it leaves has the style,
\* script and passage content the first run left: nothing duplicated,
\* dropped or set back to the origin content.
C19_RepatchKeepsTree ==
  \A c, d \in Calls :
    /\ AllPositions = {}
    /\ c < d
    /\ pc[c] = "done"
    /\ PastSwap(d) /\ ~overlapped[d] /\ lastTouch = d
    => tree = NewNodes(modSC2DataInfoCache[c][1])

\* two runs one after the other with mods that override and add records; the
\* tree differs from the one at construction
C19_Witness ==
  \E c, d \in Calls :
    /\ AllPositions = {}
    /\ Len(modOrder) = 2
    /\ c < d
    /\ pc[c] = "done"
    /\ pc[d] = "done" /\ ~overlapped[d] /\ lastTouch = d
    /\ createNewSC2DataInfoFromNow(tree) # createNewSC2DataInfoFromNow(tree0)
    /\ Len(passageDataNodeList(tree0)) = 2

\* ------------------------------------------------------------ startInit once
StageOrder ==
  <<"loadMod", "checkModConflictList", "beforePatchModToGame", "patchModToGame",
    "afterPatchModToGame">>

\* C20: however often startInit is called, also while an earlier call is
\* suspended, its body runs once: mod loading, the conflict check, the
\* beforePatchModToGame hook, patchModToGame and the afterPatchModToGame hook
\* each start at most once, in that order.
C20_StartInitRunsOnce ==
  /\ IsPrefix(initLog, StageOrder)
  /\ initCall # 0 => "patchModToGame" \in Range(initLog)

\* startInit has run through all its stages, and a further call would
\* return at the guard
C20_Witness ==
  /\ initPc = "done"
  /\ startInitOk
  /\ initLog = StageOrder
  /\ \E c \in Calls : c # initCall /\ pc[c] # "idle"

\* ------------------------------------------------------------ hook order
HookEntry(mode, table, i) == <<mode, table[i].key, table[i].out>>

\* the hooks a doHook call consults when it gets as far as k return-mode
\* hooks and m element hooks
Consulted(k, m) ==
  [i \in 1..(k + m) |->
     IF i <= k THEN HookEntry("ret", hookReturnModeTable, i)
     ELSE HookEntry("el", hookTable, i - k)]

DoHookRan == hookIn.op = "doHook" /\ hookIn.src # "" /\ ~hookTouched

\* C21: doHook consults the return-mode hooks in registration order, then
\* the element hooks in registration order; the first hook that reports
\* success ends the search, doHook returns true, a return-mode hook's value
\* becomes the element's target field, and the failure marker is not set.
C21_FirstSuccessEndsSearch ==
  DoHookRan =>
    /\ \E k \in 0..Len(hookReturnModeTable), m \in 0..Len(hookTable) :
         /\ m > 0 => k = Len(hookReturnModeTable)
         /\ hookCalled = Consulted(k, m)
    /\ \A i \in 1..(Len(hookCalled) - 1) : hookCalled[i][3] # "accept"
    /\ hookCalled # <<>> /\ Last(hookCalled)[3] = "accept" /\ hookPc # "done" =>
         hookPc = Last(hookCalled)[1]
    /\ hookPc = "done" =>
         /\ hookResult[1].flag = (hookCalled # <<>> /\ Last(hookCalled)[3] = "accept")
         /\ hookResult[1].flag =>
              /\ ~el.failed
              /\ el.ml = <<hookIn.src>>
              /\ el.field = IF Last(hookCalled)[1] = "ret"
                            THEN <<Last(hookCalled)[2]>> ELSE Undefined

\* the second return-mode hook accepted after the first declined; the element
\* hook registered behind them was not called
C21_Witness ==
  /\ DoHookRan
  /\ hookPc = "done"
  /\ hookResult = HookReturn(TRUE, Undefined)
  /\ Len(hookTable) = 1
  /\ Len(hookCalled) = 2
  /\ hookCalled[1][3] # "accept"
  /\ hookCalled[2] = <<"ret", "k2", "accept">>
  /\ el.field = <<"k2">>
  /\ ~el.failed

\* ------------------------------------------------------------ no hook handles
\* doHook found an ML-<field> value and returned false
DoHookUnhandled ==
  /\ hookIn.op = "doHook"
  /\ hookIn.src # ""
  /\ hookPc = "done"
  /\ ~hookResult[1].flag

\* what lines 90-94 do: when the element carries an ML-<field> value and every
\* hook reports failure or throws, doHook returns false with the failure
\* marker set and the target field set to the ML-<field> value
UnhandledRestoresField ==
  DoHookUnhandled =>
    /\ \A i \in 1..Len(hookCalled) : hookCalled[i][3] \in {"reject", "throw"}
    /\ ~hookTouched =>
         hookCalled = Consulted(Len(hookReturnModeTable), Len(hookTable))
    /\ el = [ml |-> <<hookIn.src>>, field |-> <<hookIn.src>>, failed |-> TRUE]

\* C22: a doHook call on an element with an ML-<field> value that no hook
\* handles leaves the element as it found it (the comment at lines 63-64)
\* and returns false.
C22_UnhandledLeavesElement ==
  DoHookUnhandled =>
    el = [ml |-> <<hookIn.src>>, field |-> Undefined, failed |-> FALSE]

\* a return-mode hook threw and an element hook reported failure; doHook
\* returned false and marked the element
UnhandledReached ==
  /\ DoHookUnhandled
  /\ ~hookTouched
  /\ Len(hookCalled) >= 2
  /\ hookCalled[1][1] = "ret" /\ hookCalled[1][3] = "throw"
  /\ Last(hookCalled)[1] = "el" /\ Last(hookCalled)[3] = "reject"
  /\ el.failed
  /\ el.field = <<"s">>

\* ------------------------------------------------------------ throwing hooks
\* the hooks a call consults when none accepts
AllHooks ==
  Consulted(Len(hookReturnModeTable),
            IF hookIn.op = "doHook" THEN Len(hookTable) ELSE 0)

\* C23: a hook that throws counts as one that did not handle the request:
\* doHook, doHookCallback and requestImageBySrc go on with the next hook in
\* order, and none of them fails because a hook threw; the only call that
\* fails is a doHookCallback whose callback threw after the loop.
C23_ThrowingHookIsSkipped ==
  /\ hookPc = "failed" =>
       /\ hookIn.op = "doHookCallback"
       /\ hookIn.cb = "throw"
       /\ callbackLog # <<>> /\ Last(callbackLog) = hookIn.src
  /\ hookIn.op # "none" /\ ~hookTouched =>
       /\ Len(hookCalled) <= Len(AllHooks)
       /\ \A i \in 1..Len(hookCalled) : hookCalled[i] = AllHooks[i]
       /\ hookCalled # <<>> /\ Last(hookCalled)[3] = "throw" =>
            \/ hookPc = Last(hookCalled)[1]
            \/ /\ hookCalled = AllHooks
               /\ hookPc = "done" => ~hookResult[1].flag
               /\ hookIn.op = "doHookCallback" => Last(callbackLog) = hookIn.src

\* requestImageBySrc went past a throwing hook and returned the value of the
\* hook registered after it
C23_Witness ==
  /\ hookIn.op = "requestImageBySrc"
  /\ ~hookTouched
  /\ hookPc = "done"
  /\ hookCalled = <<<<"ret", "k1", "throw">>, <<"ret", "k2", "accept">>>>
  /\ hookResult = HookReturn(TRUE, <<"k2">>)

\* ------------------------------------------------------------ callback once
Accepting == {i \in 1..Len(hookCalled) : hookCalled[i][3] = "accept"}

FirstAccepting == CHOOSE i \in Accepting : \A j \in Accepting : i <= j

\* C24: a doHookCallback call invokes the callback exactly once, with the
\* value of the first accepting return-mode hook (result flag true) or with
\* the original src when src is empty or no hook accepts (result flag
\* false), also when hooks or the callback throw.
C24_CallbackExactlyOnce ==
  hookIn.op = "doHookCallback" =>
    /\ Len(callbackLog) <= 1
    /\ hookPc \in {"done", "failed"} =>
         /\ Len(callbackLog) = 1
         /\ callbackLog[1] =
              IF Accepting = {} THEN hookIn.src ELSE hookCalled[FirstAccepting][2]
         /\ hookPc = "done" => hookResult[1].flag = (Accepting # {})

====
